---- MODULE Spec2Model ----
(***************************************************************************)
(* Model of aiida_raspa/calculations/__init__.py: the RaspaCalculation     *)
(* input classifier (_verify_inlinks), the job preparation                 *)
(* (_prepare_for_submission) and the RaspaInput section renderer.          *)
(*                                                                         *)
(* Python values are records [t, i, s, b, items]: t is the run-time type,  *)
(* i / s / b the payload of an int / str / bool, and items the content of  *)
(* a dict (a sequence of [k, v] pairs in the dict's iteration order) or of *)
(* a list (pairs whose k is "").  A text line is the sequence of its       *)
(* tokens, every space character a token " " of its own; a text is the     *)
(* token sequence of its lines with "\n" tokens between them.              *)
(***************************************************************************)
EXTENDS Integers, Sequences, FiniteSets, TLC

VARIABLES pc, inputdict, inputdict0, params, tree0, settings,
          local_copy_list, file, calcinfo, error, results

vars == <<pc, inputdict, inputdict0, params, tree0, settings,
          local_copy_list, file, calcinfo, error, results>>

\* ------------------------------------------------------------------ bounds
\* longest list of sections supplied under the Component key
MaxComponents == 2
\* number of times a caller invokes render() on one RaspaInput object
MaxRenders == 2

\* ------------------------------------------------------- program constants
\* indent + 3 in the recursion of _render_section
IndentStep == 3
INPUT_FILE_NAME == "simulation.input"
OUTPUT_FILE_NAME == "Output/System*/*dat"
Banner == <<"!!! Generated by AiiDA !!!">>

\* ----------------------------------------------------------- Python values
I(n) == [t |-> "int", i |-> n, s |-> "", b |-> FALSE, items |-> <<>>]
S(x) == [t |-> "str", i |-> 0, s |-> x, b |-> FALSE, items |-> <<>>]
B(x) == [t |-> "bool", i |-> 0, s |-> "", b |-> x, items |-> <<>>]
D(pairs) == [t |-> "dict", i |-> 0, s |-> "", b |-> FALSE, items |-> pairs]
P(key, val) == [k |-> key, v |-> val]
L(vals) == [t |-> "list", i |-> 0, s |-> "", b |-> FALSE,
            items |-> [n \in DOMAIN vals |-> P("", vals[n])]]

\* dict operations on a sequence of pairs with unique keys
Keys(d) == [n \in DOMAIN d |-> d[n].k]
Has(d, key) == \E n \in DOMAIN d : d[n].k = key
Get(d, key) == d[CHOOSE n \in DOMAIN d : d[n].k = key].v
\* d.pop(key, default): the value
PopValue(d, key, default) == IF Has(d, key) THEN Get(d, key) ELSE default
\* d.pop(key, default): the dict afterwards
Pop(d, key) == SelectSeq(d, LAMBDA p : p.k # key)

\* Python's order on the key strings of the model (code point order:
\* upper case before "_" before lower case)
KeyOrder == <<"Box", "Component", "CreateNumberOfMolecules", "CutOff",
              "Extra", "GeneralSettings", "MoleculeName", "Movies",
              "NumberOfCycles", "SimulationType", "SwapProbability", "_",
              "ewald">>
Rank(key) == CHOOSE n \in DOMAIN KeyOrder : KeyOrder[n] = key
KeyLess(a, b) == Rank(a) < Rank(b)

\* sorted(params.items()) iterating the dict in insertion order instead
UnsortedItems(items) == items

\* sorted(params.items()): the keys of a dict are unique, the pairs are
\* ordered by their keys
RECURSIVE sorted(_)
sorted(items) ==
    IF items = <<>> THEN <<>>
    ELSE LET m == CHOOSE n \in DOMAIN items :
                    \A j \in DOMAIN items : j = n \/ KeyLess(items[n].k, items[j].k)
         IN  <<items[m]>> \o sorted(SelectSeq(items, LAMBDA p : p.k # items[m].k))

\* ' ' * indent
RECURSIVE Spaces(_)
Spaces(n) == IF n <= 0 THEN <<>> ELSE <<" ">> \o Spaces(n - 1)

\* '%s' % val for the scalars of the model
Str(val) ==
    CASE val.t = "int" -> ToString(val.i)
      [] val.t = "str" -> val.s
      [] val.t = "bool" -> IF val.b THEN "True" ELSE "False"
      [] OTHER -> "<object>"

\* the scalar line without its indentation
ScalarLineNoIndent(indent, key, val) == <<key, " ", " ", Str(val)>>

\* '%s%s  %s' % (' '*indent, key, val)
ScalarLine(indent, key, val) == Spaces(indent) \o <<key, " ", " ", Str(val)>>

\* '%s%s  %s' % (' '*indent, key, '.true.' if val else '.false.')
BoolLine(indent, key, val) ==
    Spaces(indent) \o <<key, " ", " ", IF val.b THEN ".true." ELSE ".false.">>

\* '%s %s %s %s' % (key, val.pop('_', ''), 'MoleculeName',
\*                  val.pop('MoleculeName', ''))
HeaderLine(key, sec) ==
    <<key, " ", Str(PopValue(sec, "_", S(""))), " ", "MoleculeName", " ",
      Str(PopValue(sec, "MoleculeName", S("")))>>

\* the nested section after the two pops of the header line
Reduced(sec) == Pop(Pop(sec, "_"), "MoleculeName")

\* a list item rendered one level deeper than its list
ListIndentDeeper(indent) == indent + IndentStep

\* the indentation _render_section passes on for the items of a list
ListIndent(indent) == indent

\* _render_section(output, params, indent): the lines appended to output
RECURSIVE RenderSection(_, _), RenderItems(_, _), RenderList(_, _, _)
RenderItems(its, indent) ==
    IF its = <<>> THEN <<>>
    ELSE LET key == Head(its).k
             val == Head(its).v
             lines ==
               CASE val.t = "dict" ->
                      <<HeaderLine(key, val.items)>>
                        \o RenderSection(Reduced(val.items), indent + IndentStep)
                 [] val.t = "list" -> RenderList(key, val.items, indent)
                 [] val.t = "bool" -> <<BoolLine(indent, key, val)>>
                 [] OTHER -> <<ScalarLine(indent, key, val)>>
         IN  lines \o RenderItems(Tail(its), indent)

RenderList(key, listitems, indent) ==
    IF listitems = <<>> THEN <<>>
    ELSE RenderSection(<<P(key, Head(listitems).v)>>, ListIndent(indent))
           \o RenderList(key, Tail(listitems), indent)

RenderSection(sec, indent) == RenderItems(sorted(sec), indent)

\* "\n".join(output)
RECURSIVE Join(_)
Join(lines) ==
    IF lines = <<>> THEN <<>>
    ELSE IF Len(lines) = 1 THEN Head(lines)
    ELSE Head(lines) \o <<"\n">> \o Join(Tail(lines))

\* what a call ends with: a returned value or a raised exception
Returned(text) == [type |-> "return", msg |-> "", text |-> text, keys |-> <<>>]
Raised(exc, msg, keys) == [type |-> exc, msg |-> msg, text |-> <<>>, keys |-> keys]
NoError == [type |-> "none", msg |-> "", text |-> <<>>, keys |-> <<>>]

\* RaspaInput.render(): [result, params] the outcome and self.params after
Render(p) ==
    IF ~Has(p, "GeneralSettings")
    THEN [result |-> Raised("KeyError", "", <<"GeneralSettings">>), params |-> p]
    ELSE LET gs == Get(p, "GeneralSettings")
             p1 == Pop(p, "GeneralSettings")
             out1 == <<Banner>> \o RenderSection(gs.items, 0)
         IN  IF ~Has(p1, "Component")
             THEN [result |-> Raised("KeyError", "", <<"Component">>), params |-> p1]
             ELSE LET comp == Get(p1, "Component")
                      p2 == Pop(p1, "Component")
                      out2 == out1 \o RenderSection(<<P("Component", comp)>>, 0)
                  IN  [result |-> Returned(Join(out2)), params |-> p2]

\* ------------------------------------------------------------- input nodes
\* an input node: its class, the dict a ParameterData holds, and the
\* absolute path and filename a SinglefileData holds
Node(type, dict, path, filename) ==
    [type |-> type, dict |-> dict, path |-> path, filename |-> filename]
ParameterData(dict) == Node("ParameterData", dict, "", "")
StructureData == Node("StructureData", <<>>, "", "")
SinglefileData(path, filename) == Node("SinglefileData", <<>>, path, filename)
RemoteData == Node("RemoteData", <<>>, "", "")
Code == Node("Code", <<>>, "", "")

\* every remaining input taken for an auxiliary file
AnyNodeIsFile(node) == TRUE

\* isinstance(v, SinglefileData)
IsSinglefile(node) == node.type = "SinglefileData"

\* the loop over inputdict.items(): the entries appended to local_copy_list
\* (the module is Python 2 code: items() is a list of its own, so the pops
\* inside the loop do not disturb the iteration)
RECURSIVE LocalCopyList(_)
LocalCopyList(d) ==
    IF d = <<>> THEN <<>>
    ELSE (IF IsSinglefile(Head(d).v)
          THEN <<<<Head(d).v.path, Head(d).v.filename>>>> ELSE <<>>)
         \o LocalCopyList(Tail(d))

\* the loop over inputdict.items(): inputdict after the pops
WithoutFiles(d) == SelectSeq(d, LAMBDA p : ~IsSinglefile(p.v))

MsgNoParameters == "No parameters specified"
MsgParametersType == "parameters type not ParameterData"
MsgStructureType == "structure type not StructureData"
MsgNoCode == "No code specified"
MsgSettingsType == "settings type not ParameterData"
MsgUnrecognized == "unrecognized input nodes: "
MsgSettingsLeft == "The following keys have been found in the settings input node, but were not understood: "

InputValidationError(msg, keys) == Raised("InputValidationError", msg, keys)

\* _verify_inlinks(inputdict): the exception raised (or NoError), inputdict
\* after the pops done so far, and the values returned
VerifyInlinksResult(d) ==
    LET fail(e, left) == [error |-> e, inputdict |-> left, params |-> <<>>,
                          settings |-> <<>>, local_copy_list |-> <<>>]
        d1 == Pop(d, "parameters")
        d2 == Pop(d1, "structure")
        d3 == Pop(d2, "code")
        d4 == Pop(d3, "settings")
        d5 == WithoutFiles(d4)
        settings_node == PopValue(d3, "settings", ParameterData(<<>>))
    IN  IF ~Has(d, "parameters")
          THEN fail(InputValidationError(MsgNoParameters, <<>>), d1)
        ELSE IF Get(d, "parameters").type # "ParameterData"
          THEN fail(InputValidationError(MsgParametersType, <<>>), d1)
        ELSE IF Has(d1, "structure") /\ Get(d1, "structure").type # "StructureData"
          THEN fail(InputValidationError(MsgStructureType, <<>>), d2)
        ELSE IF ~Has(d2, "code")
          THEN fail(InputValidationError(MsgNoCode, <<>>), d3)
        ELSE IF settings_node.type # "ParameterData"
          THEN fail(InputValidationError(MsgSettingsType, <<>>), d4)
        ELSE IF d5 # <<>>
          THEN fail(InputValidationError(MsgUnrecognized, Keys(d5)), d5)
        ELSE [error |-> NoError, inputdict |-> d5,
              params |-> Get(d, "parameters").dict,
              settings |-> settings_node.dict,
              local_copy_list |-> LocalCopyList(d4)]

\* the values of a Python list
ListValues(val) == [n \in DOMAIN val.items |-> val.items[n].v]

\* the input filename put in front of the user's tokens
CmdlinePrepended(tokens) == <<S(INPUT_FILE_NAME)>> \o tokens

\* cmdline += [self._INPUT_FILE_NAME]
Cmdline(tokens) == tokens \o <<S(INPUT_FILE_NAME)>>

\* [[self._OUTPUT_FILE_NAME, '.', 0]]
DefaultRetrieveList == <<L(<<S(OUTPUT_FILE_NAME), S("."), I(0)>>)>>

NoCalcInfo == [cmdline_params |-> <<>>, stdin_name |-> "", local_copy_list |-> <<>>,
               remote_symlink_list |-> <<>>, remote_copy_list |-> <<>>,
               retrieve_list |-> <<>>]

\* the CalcInfo built from the settings and the local copy list
CalcInfo(sett, copies) ==
    [cmdline_params |-> Cmdline(ListValues(PopValue(sett, "cmdline", L(<<>>)))),
     stdin_name |-> INPUT_FILE_NAME,
     local_copy_list |-> copies,
     remote_symlink_list |-> <<>>,
     remote_copy_list |-> <<>>,
     retrieve_list |-> DefaultRetrieveList
        \o ListValues(PopValue(sett, "additional_retrieve_list", L(<<>>)))]

\* a settings check that lets a single leftover key pass
SeveralSettingsLeft(sett) == Len(sett) > 1

\* if settings:
SettingsLeft(sett) == sett # <<>>

NoFile == [exists |-> FALSE, text |-> <<>>]

\* ------------------------------------------------------ the inputs explored
\* the sequences without repetition over the elements of a sequence
OrderedSubsets(pool) ==
    {s \in UNION {[1..n -> DOMAIN pool] : n \in 0..Len(pool)} :
        \A a, b \in DOMAIN s : a # b => s[a] # s[b]}
Pick(pool, s) == [n \in DOMAIN s |-> pool[s[n]]]
Arrangements(pool) == {Pick(pool, s) : s \in OrderedSubsets(pool)}
AllOrders(pool) == {a \in Arrangements(pool) : Len(a) = Len(pool)}

GSPool == <<P("NumberOfCycles", I(10)), P("SimulationType", S("MonteCarlo")),
            P("Movies", B(TRUE))>>
Box == D(<<P("CutOff", I(12)), P("_", I(0))>>)
CompA == <<P("MoleculeName", S("methane")), P("CreateNumberOfMolecules", I(0))>>
CompB == <<P("ewald", B(FALSE)), P("_", I(1)), P("SwapProbability", I(1))>>
CompC == <<P("SwapProbability", I(2)), P("Box", Box), P("MoleculeName", S("CO2"))>>
GSFull == GSPool
GeneralSections == Arrangements(GSPool)
ComponentSections ==
    AllOrders(CompA) \cup {CompB} \cup {CompC, <<CompC[3], CompC[2], CompC[1]>>}

RECURSIVE SeqsUpTo(_, _)
SeqsUpTo(set, n) ==
    IF n = 0 THEN {<<>>}
    ELSE LET shorter == SeqsUpTo(set, n - 1)
         IN  shorter \cup {Append(q, x) : q \in {r \in shorter : Len(r) = n - 1}, x \in set}

ComponentValues ==
    {D(sec) : sec \in ComponentSections}
      \cup {L([n \in DOMAIN q |-> D(q[n])]) : q \in SeqsUpTo(ComponentSections, MaxComponents)}

RootsOf(gs, comp) ==
    {<<P("GeneralSettings", D(gs)), P("Component", comp)>>,
     <<P("Component", comp), P("GeneralSettings", D(gs))>>,
     <<P("Extra", I(1)), P("GeneralSettings", D(gs)), P("Component", comp)>>,
     <<P("GeneralSettings", D(gs))>>,
     <<P("Component", comp)>>}
RenderTrees == UNION {RootsOf(gs, comp) : gs \in GeneralSections, comp \in ComponentValues}

PrepTrees ==
    RootsOf(GSFull, L(<<D(CompA), D(CompC)>>)) \cup RootsOf(<<GSPool[2], GSPool[1]>>, D(CompB))

CmdTokens == L(<<S("-v"), S("--mute")>>)
MoreRetrieve == L(<<S("Movies/*"), S("VTK/*")>>)
SettingsDicts ==
    {<<>>,
     <<P("cmdline", CmdTokens)>>,
     <<P("cmdline", L(<<>>))>>,
     <<P("additional_retrieve_list", MoreRetrieve)>>,
     <<P("additional_retrieve_list", MoreRetrieve), P("cmdline", CmdTokens)>>,
     <<P("verbose", B(TRUE))>>,
     <<P("cmdline", CmdTokens), P("walltime", I(60))>>,
     <<P("walltime", I(60)), P("additional_retrieve_list", MoreRetrieve),
       P("verbose", B(TRUE))>>}

FileA == P("forcefield", SinglefileData("/repo/a/force_field.def", "force_field.def"))
FileB == P("molecule", SinglefileData("/repo/b/methane.def", "methane.def"))
JunkA == P("parent_folder", RemoteData)
JunkB == P("kpoints", StructureData)
ExtraInputs ==
    {<<>>, <<FileA>>, <<FileB, FileA>>, <<JunkA>>, <<FileA, JunkA>>,
     <<JunkB, FileB, JunkA>>}

Optional(set) == {<<>>} \cup {<<x>> : x \in set}
InputDicts ==
    {a \o b \o c \o e \o x :
       a \in Optional({P("parameters", ParameterData(t)) : t \in PrepTrees}
                        \cup {P("parameters", StructureData)}),
       b \in Optional({P("structure", StructureData), P("structure", RemoteData)}),
       c \in Optional({P("code", Code)}),
       e \in Optional({P("settings", ParameterData(sd)) : sd \in SettingsDicts}
                        \cup {P("settings", RemoteData)}),
       x \in ExtraInputs}

\* ------------------------------------------------- _prepare_for_submission
Init ==
    /\ pc = "start"
    /\ inputdict \in InputDicts
    /\ inputdict0 = inputdict
    /\ params = <<>>
    /\ tree0 = <<>>
    /\ settings = <<>>
    /\ local_copy_list = <<>>
    /\ file = NoFile
    /\ calcinfo = NoCalcInfo
    /\ error = NoError
    /\ results = <<>>

\* in_nodes = self._verify_inlinks(inputdict)
VerifyInlinks ==
    /\ pc = "start"
    /\ LET r == VerifyInlinksResult(inputdict)
       IN  /\ inputdict' = r.inputdict
           /\ error' = r.error
           /\ params' = r.params
           /\ tree0' = r.params
           /\ settings' = r.settings
           /\ local_copy_list' = r.local_copy_list
           /\ pc' = IF r.error = NoError THEN "verified" ELSE "raised"
    /\ UNCHANGED <<inputdict0, file, calcinfo, results>>

\* with open(inp_fn, "w") as f: the file is created (or truncated)
OpenInputFile ==
    /\ pc = "verified"
    /\ file' = [exists |-> TRUE, text |-> <<>>]
    /\ pc' = "opened"
    /\ UNCHANGED <<inputdict, inputdict0, params, tree0, settings,
                   local_copy_list, calcinfo, error, results>>

\* f.write(inp.render())
WriteInputFile ==
    /\ pc = "opened"
    /\ LET r == Render(params)
       IN  /\ params' = r.params
           /\ results' = Append(results, r.result)
           /\ IF r.result.type = "return"
              THEN /\ file' = [exists |-> TRUE, text |-> r.result.text]
                   /\ pc' = "written"
                   /\ error' = error
              ELSE /\ file' = file
                   /\ pc' = "raised"
                   /\ error' = r.result
    /\ UNCHANGED <<inputdict, inputdict0, tree0, settings, local_copy_list,
                   calcinfo>>

\* codeinfo, calcinfo and the file lists; the two settings are popped
BuildCalcInfo ==
    /\ pc = "written"
    /\ calcinfo' = CalcInfo(settings, local_copy_list)
    /\ settings' = Pop(Pop(settings, "cmdline"), "additional_retrieve_list")
    /\ pc' = "built"
    /\ UNCHANGED <<inputdict, inputdict0, params, tree0, local_copy_list,
                   file, error, results>>

\* check for left over settings, return calcinfo
CheckSettings ==
    /\ pc = "built"
    /\ IF SettingsLeft(settings)
       THEN /\ error' = InputValidationError(MsgSettingsLeft, Keys(settings))
            /\ pc' = "raised"
       ELSE /\ error' = error
            /\ pc' = "returned"
    /\ UNCHANGED <<inputdict, inputdict0, params, tree0, settings,
                   local_copy_list, file, calcinfo, results>>

Next ==
    \/ VerifyInlinks
    \/ OpenInputFile
    \/ WriteInputFile
    \/ BuildCalcInfo
    \/ CheckSettings

Spec == Init /\ [][Next]_vars

\* ------------------------------------------- a caller of RaspaInput.render
\* inp = RaspaInput(params)
InitRender ==
    /\ pc = "RaspaInput"
    /\ params \in RenderTrees
    /\ tree0 = params
    /\ inputdict = <<>>
    /\ inputdict0 = <<>>
    /\ settings = <<>>
    /\ local_copy_list = <<>>
    /\ file = NoFile
    /\ calcinfo = NoCalcInfo
    /\ error = NoError
    /\ results = <<>>

\* inp.render(), on the same object as the calls before it
CallRender ==
    /\ pc = "RaspaInput"
    /\ Len(results) < MaxRenders
    /\ LET r == Render(params)
       IN  /\ params' = r.params
           /\ results' = Append(results, r.result)
    /\ UNCHANGED <<pc, inputdict, inputdict0, tree0, settings, local_copy_list,
                   file, calcinfo, error>>

NextRender == CallRender

SpecRender == InitRender /\ [][NextRender]_vars

\* ------------------------------------------------- reading a rendered text
\* the lines of a text
RECURSIVE SplitLines(_)
SplitLines(text) ==
    IF \A n \in DOMAIN text : text[n] # "\n" THEN <<text>>
    ELSE LET m == CHOOSE n \in DOMAIN text :
                    text[n] = "\n" /\ \A j \in 1..(n - 1) : text[j] # "\n"
         IN  <<SubSeq(text, 1, m - 1)>> \o SplitLines(SubSeq(text, m + 1, Len(text)))

\* the number of space characters a line starts with
LeadingSpaces(line) ==
    CHOOSE n \in 0..Len(line) :
        /\ \A j \in 1..n : line[j] = " "
        /\ n = Len(line) \/ line[n + 1] # " "

\* the key a line starts with, after its indentation
LineKey(line) == line[LeadingSpaces(line) + 1]

\* a header line "KEY <tag> MoleculeName <name>"
IsHeader(line) ==
    /\ Len(line) = LeadingSpaces(line) + 7
    /\ line[LeadingSpaces(line) + 5] = "MoleculeName"

\* the tree with every dict in the order of its keys: the logical content of
\* a tree, whatever the insertion order
RECURSIVE Canonical(_), CanonicalValue(_)
Canonical(items) ==
    LET present == SelectSeq(KeyOrder, LAMBDA key : Has(items, key))
    IN  [n \in DOMAIN present |-> P(present[n], CanonicalValue(Get(items, present[n])))]

CanonicalValue(val) ==
    CASE val.t = "dict" -> D(Canonical(val.items))
      [] val.t = "list" ->
           [val EXCEPT !.items = [n \in DOMAIN val.items |->
                                    P("", CanonicalValue(val.items[n].v))]]
      [] OTHER -> val

\* the lines a section is to give, in order: for each its key, the
\* indentation of the section it is a key of, and whether it is a header
RECURSIVE Outline(_, _), OutlineList(_, _, _)
Outline(items, indent) ==
    IF items = <<>> THEN <<>>
    ELSE LET key == Head(items).k
             val == Head(items).v
         IN  (CASE val.t = "dict" ->
                     <<[key |-> key, indent |-> indent, header |-> TRUE]>>
                       \o Outline(Reduced(val.items), indent + 3)
                [] val.t = "list" -> OutlineList(key, val.items, indent)
                [] OTHER -> <<[key |-> key, indent |-> indent, header |-> FALSE]>>)
             \o Outline(Tail(items), indent)

OutlineList(key, listitems, indent) ==
    IF listitems = <<>> THEN <<>>
    ELSE Outline(<<P(key, Head(listitems).v)>>, indent)
           \o OutlineList(key, Tail(listitems), indent)

\* the outline of the text render is to return for a tree
TreeOutline(tree) ==
    Outline(Canonical(Get(tree, "GeneralSettings").items), 0)
      \o Outline(<<P("Component", CanonicalValue(Get(tree, "Component")))>>, 0)

Complete(tree) == Has(tree, "GeneralSettings") /\ Has(tree, "Component")

\* the first call of render has returned a text
Rendered == Len(results) >= 1 /\ results[1].type = "return"
RenderedLines == SplitLines(results[1].text)
\* the lines after the banner
BodyLines == Tail(RenderedLines)

\* the settings dict preparation started with
Settings0 ==
    IF Has(inputdict0, "settings") THEN Get(inputdict0, "settings").dict ELSE <<>>
\* its keys other than the two recognized directives
Leftover0 ==
    Keys(SelectSeq(Settings0,
                   LAMBDA p : p.k \notin {"cmdline", "additional_retrieve_list"}))

\* the input role names that are neither a known role nor a single file
Unrecognized0 ==
    Keys(SelectSeq(inputdict0,
                   LAMBDA p : /\ p.k \notin {"parameters", "structure", "code", "settings"}
                              /\ p.v.type # "SinglefileData"))
\* the four known roles pass their own checks
KnownRolesValid0 ==
    /\ Has(inputdict0, "parameters")
    /\ Get(inputdict0, "parameters").type = "ParameterData"
    /\ Has(inputdict0, "structure") => Get(inputdict0, "structure").type = "StructureData"
    /\ Has(inputdict0, "code")
    /\ Has(inputdict0, "settings") => Get(inputdict0, "settings").type = "ParameterData"

\* ------------------------------------------------------------------ claims

\* C1: every failure of _prepare_for_submission aborts before the input file
\* is created or written: no error is raised once the file exists.
C1_NoFileBeforeError == error.type # "none" => ~file.exists

\* C2: every key of the tree is rendered exactly once (a scalar line, a
\* header line or a header field), and a root key other than GeneralSettings
\* and Component makes render fail with a validation error instead of being
\* skipped.
C2_EveryKeyRenderedOnce ==
    Len(results) >= 1 /\ Complete(tree0) =>
        /\ (\E n \in DOMAIN tree0 : tree0[n].k \notin {"GeneralSettings", "Component"})
              => results[1].type = "InputValidationError"
        /\ results[1].type = "return" =>
              /\ Len(BodyLines) = Len(TreeOutline(tree0))
              /\ \A n \in DOMAIN BodyLines :
                    LineKey(BodyLines[n]) = TreeOutline(tree0)[n].key

\* C3: render called twice in succession on the same parameter tree object
\* gives the same text both times.
C3_RenderRepeatable ==
    Len(results) >= 2 /\ results[1].type = "return" => results[2] = results[1]

\* C4: the text depends only on the logical content of the tree, not on the
\* insertion order of its keys, and the lines of one section come in the
\* lexicographic order of their keys.
C4_OrderIndependent ==
    Len(results) >= 1 =>
        /\ results[1] = Render(Canonical(tree0)).result
        /\ results[1].type = "return" =>
              \A n \in 1..(Len(BodyLines) - 1) :
                 LET a == BodyLines[n]
                     b == BodyLines[n + 1]
                 IN  (~IsHeader(a) /\ ~IsHeader(b)
                        /\ LeadingSpaces(a) = LeadingSpaces(b))
                       => KeyLess(LineKey(a), LineKey(b))

\* C4 witness: a text was returned for a tree whose sections are not in key
\* order, at the root, in GeneralSettings and in a Component section.
C4_Witness ==
    /\ Rendered
    /\ tree0 # Canonical(tree0)
    /\ Get(tree0, "GeneralSettings") # CanonicalValue(Get(tree0, "GeneralSettings"))
    /\ Len(Get(tree0, "GeneralSettings").items) = 3
    /\ Get(tree0, "Component").t = "list"
    /\ Get(tree0, "Component") # CanonicalValue(Get(tree0, "Component"))

\* C5 as stated: whenever the input mapping holds an unrecognized role key,
\* _verify_inlinks fails with the unrecognized-input-nodes error naming
\* exactly the unrecognized keys.
C5_UnrecognizedAlwaysReported ==
    pc # "start" /\ Unrecognized0 # <<>> =>
        error = InputValidationError(MsgUnrecognized, Unrecognized0)

\* C5 amended: when the parameters, structure, code and settings entries
\* pass their own checks and the mapping holds an unrecognized role key,
\* _verify_inlinks fails with one unrecognized-input-nodes error naming
\* exactly the unrecognized keys, in the mapping's order; and that error is
\* raised in no other case.
C5_UnrecognizedReported ==
    pc # "start" =>
        /\ (KnownRolesValid0 /\ Unrecognized0 # <<>>)
              => /\ pc = "raised"
                 /\ error = InputValidationError(MsgUnrecognized, Unrecognized0)
        /\ error.msg = MsgUnrecognized
              => KnownRolesValid0 /\ error.keys = Unrecognized0 /\ error.keys # <<>>

\* C5 witness: two unrecognized keys, beside a single file, reported in one
\* error.
C5_Witness ==
    /\ pc = "raised"
    /\ error.msg = MsgUnrecognized
    /\ Len(error.keys) = 2
    /\ Len(inputdict0) > Len(error.keys) + 2

\* C6: once the two directives are removed from the settings, preparation
\* fails with one error listing all leftover keys if and only if a key is
\* left; with none left it returns the staging descriptor.
C6_LeftoverSettings ==
    /\ pc = "returned" =>
          Leftover0 = <<>> /\ error = NoError /\ calcinfo # NoCalcInfo
    /\ (pc = "raised" /\ Rendered) =>
          Leftover0 # <<>> /\ error = InputValidationError(MsgSettingsLeft, Leftover0)
    /\ pc = "built" => settings = SelectSeq(Settings0,
                          LAMBDA p : p.k \notin {"cmdline", "additional_retrieve_list"})

\* C6 witness: two leftover keys beside a recognized directive, reported in
\* one error.
C6_Witness ==
    /\ pc = "raised"
    /\ error.msg = MsgSettingsLeft
    /\ Len(error.keys) = 2
    /\ Len(Settings0) = 3

\* C7: on success the command line is the user's cmdline tokens in their
\* order followed by the input filename as the last token, the retrieve list
\* is the default pattern followed by the user's additions, and the remote
\* copy and symlink lists are empty.
C7_StagingDescriptor ==
    pc = "returned" =>
        LET tokens == IF Has(Settings0, "cmdline")
                      THEN ListValues(Get(Settings0, "cmdline")) ELSE <<>>
            more == IF Has(Settings0, "additional_retrieve_list")
                    THEN ListValues(Get(Settings0, "additional_retrieve_list"))
                    ELSE <<>>
            cmd == calcinfo.cmdline_params
            ret == calcinfo.retrieve_list
        IN  /\ Len(cmd) = Len(tokens) + 1
            /\ SubSeq(cmd, 1, Len(tokens)) = tokens
            /\ cmd[Len(cmd)] = S("simulation.input")
            /\ Len(ret) = Len(more) + 1
            /\ ret[1] = L(<<S("Output/System*/*dat"), S("."), I(0)>>)
            /\ Tail(ret) = more
            /\ calcinfo.remote_copy_list = <<>>
            /\ calcinfo.remote_symlink_list = <<>>

\* C7 witness: a successful preparation with two cmdline tokens and two
\* additional retrieve patterns.
C7_Witness ==
    /\ pc = "returned"
    /\ Len(calcinfo.cmdline_params) = 3
    /\ Len(calcinfo.retrieve_list) = 3

\* C8: for a tree without GeneralSettings or without Component, render fails
\* with an input-validation error and returns no text.
C8_MissingSectionIsValidationError ==
    Len(results) >= 1 /\ ~Complete(tree0) =>
        results[1].type = "InputValidationError"

\* C9 as stated: every line of a section rendered at indent n, header lines
\* included, starts with exactly n spaces.
C9_EveryLineIndented ==
    Rendered =>
        /\ Len(BodyLines) = Len(TreeOutline(tree0))
        /\ \A n \in DOMAIN BodyLines :
              LeadingSpaces(BodyLines[n]) = TreeOutline(tree0)[n].indent

\* C9 amended: every scalar and boolean line of a section rendered at indent
\* n starts with exactly n spaces (0 for GeneralSettings, 3 more per level
\* of nesting), and every nested-section header line starts with no space,
\* whatever the indent of its section.
C9_ScalarLinesIndented ==
    Rendered =>
        /\ Len(BodyLines) = Len(TreeOutline(tree0))
        /\ \A n \in DOMAIN BodyLines :
              LET line == BodyLines[n]
                  want == TreeOutline(tree0)[n]
              IN  /\ LineKey(line) = want.key
                  /\ IsHeader(line) = want.header
                  /\ LeadingSpaces(line) = IF want.header THEN 0 ELSE want.indent

\* C9 witness: a text with a scalar line at indent 6 and the header of a
\* section nested at indent 3.
C9_Witness ==
    /\ Rendered
    /\ \E n \in DOMAIN BodyLines : LeadingSpaces(BodyLines[n]) = 6
    /\ \E n \in DOMAIN BodyLines :
          TreeOutline(tree0)[n].header /\ TreeOutline(tree0)[n].indent = 3
    /\ \E n \in DOMAIN BodyLines :
          ~IsHeader(BodyLines[n]) /\ LeadingSpaces(BodyLines[n]) = 0

\* the sections supplied under Component
ComponentItems == 
    IF Get(tree0, "Component").t = "list"
    THEN ListValues(Get(tree0, "Component")) ELSE <<Get(tree0, "Component")>>
\* the number of lines of a section
LineCount(sec) == Len(Outline(sec, 0))
\* the line of the i-th Component header among the lines after the banner
RECURSIVE HeaderAt(_)
HeaderAt(i) ==
    IF i = 1 THEN LineCount(Get(tree0, "GeneralSettings").items) + 1
    ELSE HeaderAt(i - 1) + 1 + LineCount(Reduced(ComponentItems[i - 1].items))
\* the lines of the i-th Component section after its header
BodyOf(i) == (HeaderAt(i) + 1)..(HeaderAt(i + 1) - 1)
\* the keys of a section that hold a scalar
ScalarKeys(sec) == {n \in DOMAIN sec : sec[n].v.t \notin {"dict", "list"}}

\* the headers of the list: one per section, in list order, none indented
ListHeaders ==
    /\ Len(BodyLines) = HeaderAt(Len(ComponentItems) + 1) - 1
    /\ \A i \in DOMAIN ComponentItems :
          LET h == BodyLines[HeaderAt(i)]
              item == ComponentItems[i].items
          IN  /\ IsHeader(h)
              /\ LeadingSpaces(h) = 0
              /\ LineKey(h) = "Component"
              /\ h[3] = Str(PopValue(item, "_", S("")))
              /\ h[7] = Str(PopValue(item, "MoleculeName", S("")))

\* a single section renders as the one-element list holding it
SingleAsList ==
    Get(tree0, "Component").t = "dict" =>
        results[1] =
          Render(<<P("GeneralSettings", Get(tree0, "GeneralSettings")),
                   P("Component", L(<<Get(tree0, "Component")>>))>>).result

\* C10 as stated: a list of n sections renders as n sibling headers in list
\* order at one indentation, each followed by its body lines, all indented
\* 3 spaces deeper than the header; a single section renders as a
\* one-element list.
C10_BodiesIndentedDeeper ==
    Rendered =>
        /\ ListHeaders
        /\ \A i \in DOMAIN ComponentItems : \A n \in BodyOf(i) :
              LeadingSpaces(BodyLines[n]) >= LeadingSpaces(BodyLines[HeaderAt(i)]) + 3
        /\ SingleAsList

\* C10 amended: a list of n sections renders as n sibling headers in list
\* order, none indented and none inside another's body, each followed by
\* its own body, whose scalar and boolean lines are indented 3 spaces deeper
\* than the list (those of the section itself exactly 3) while the header
\* lines of sections nested in the body carry no indentation; a single
\* section renders as a one-element list.
C10_SiblingHeaders ==
    Rendered =>
        /\ ListHeaders
        /\ \A i \in DOMAIN ComponentItems :
              /\ \A n \in BodyOf(i) :
                    IF IsHeader(BodyLines[n])
                    THEN LeadingSpaces(BodyLines[n]) = 0 /\ LineKey(BodyLines[n]) # "Component"
                    ELSE LeadingSpaces(BodyLines[n]) >= 3
              /\ Cardinality({n \in BodyOf(i) :
                                ~IsHeader(BodyLines[n]) /\ LeadingSpaces(BodyLines[n]) = 3})
                   = Cardinality(ScalarKeys(Reduced(ComponentItems[i].items)))
        /\ SingleAsList

\* C10 witness: a text for a list of two sections, the first with a nested
\* section in its body.
C10_Witness ==
    /\ Rendered
    /\ Get(tree0, "Component").t = "list"
    /\ Len(ComponentItems) = 2
    /\ \E n \in BodyOf(1) : IsHeader(BodyLines[n])
    /\ BodyOf(2) # {}

====
